---- MODULE Spec2Model ----
(***************************************************************************)
(* A model of the esp32_interfaces firmware: the pin-role allocation done  *)
(* by main, the process-wide pin state slots, the four polling tasks, the  *)
(* BLE session machine (advertise, then the GATT event sub-flow raced      *)
(* against the telemetry sub-flow) and the two HTTP handlers.              *)
(***************************************************************************)
EXTENDS Integers, Sequences, FiniteSets, TLC

(***************************************************************************)
(* Bounds of the model.                                                    *)
(***************************************************************************)
\* Total number of pin numbers over the four lists of a configuration
\* explored by SpecAlloc.
MaxCfgTotal == 3

\* Total number of pin numbers over the four lists of a configuration the
\* running firmware is explored with (Spec, FairSpec).
MaxRunTotal == 2

\* Number of entries of a pin-write batch.
MaxBatch == 2

\* Length of the pwm_write_pin_nums explored by SpecPwmAlloc.
MaxPwmList == 4

\* Number of calls of connect_async the connection task is followed through.
MaxConnects == 30

\* Number of pin numbers of a /read-pins request.
MaxReads == 1

\* The longest pin_reads of a read request when the bridges run on their own.
MaxBridgeReads == 2

(***************************************************************************)
(* Pin numbers.                                                            *)
(***************************************************************************)
\* The pins that have a state slot (pin.rs, GPIO14_STATE .. GPIO33_STATE).
HwPins == {14, 26, 25, 32, 35, 33}

\* The arms of the `match pin_num` of the three digital roles in main.
DigitalArms == {14, 26, 25, 33}

\* The arms of the `match pin_num` of the analog role in main.
AdcArms == {32, 35}

\* Pin numbers a configuration file is drawn from: two digital pins, the two
\* analog pins and a number that is no pin of the board.
CfgPinNums == {14, 26, 32, 35, 7}

\* Pin numbers the running firmware is configured with: a digital pin in the
\* three digital lists, the two analog pins in the analog list.
RunDigitalNums == {14}

RunAdcNums == {32, 35}

\* Pin numbers of the entries of a pin-write batch: a pin the write `match`
\* has an arm for, and a number that is no pin.
WritePinNums == {14, 7}

\* Pin numbers of a read request: also a pin only the read `match` knows.
ReadPinNums == {14, 32, 7}

\* Values of the entries of a pin-write batch (u8).
ReqStates == {100, 200}

\* Samples of an analog conversion (u16).
AdcValues == {1000, 4095}

\* Results of read_oneshot: Err, or Ok(value).
AdcResults ==
    {[ok |-> FALSE, value |-> 0]} \cup {[ok |-> TRUE, value |-> v] : v \in AdcValues}

\* `let mut data = [0u8; 32]` of custom_task, the length of the value of a
\* characteristic.
DataLen == 32

\* `[0u8; 32]`; also the value of `data` while no custom_task exists.
NoData == [i \in 1..DataLen |-> 0]

\* demo_data.
DemoData == <<3, 14, 100, 26, 100, 25, 100>>

\* `data[..src.len()].copy_from_slice(src)` on a 32-byte buffer.
CopyPrefix(buf, src) == [i \in 1..DataLen |-> IF i <= Len(src) THEN src[i] ELSE buf[i]]

\* `data` when custom_task awaits the first notify of an iteration: a fresh
\* buffer with demo_data copied in (ble.rs 268-271).
FirstData == CopyPrefix(NoData, DemoData)

\* No handler is applying a batch.
NoBatch == [task |-> "none", pin_writes |-> <<>>, done |-> 0, before |-> <<>>,
            polling |-> FALSE]

\* The four roles, in the order main processes them.
RoleOrder == <<"basic_write", "basic_read", "pwm_write", "adc_read">>

(***************************************************************************)
(* State.                                                                  *)
(***************************************************************************)
VARIABLES
    config,            \* the parsed Config: four lists of pin numbers
    pc,                \* position of main
    gpio,              \* gpio14 .. gpio33 of main: TRUE = Some(handle)
    basic_write_pins,  \* Vec<BasicWritePinTaskItem>: pin numbers
    basic_read_pins,   \* Vec<BasicReadPinTaskItem>: pin numbers
    pwm_write_pins,    \* Vec<PWMWritePinTaskItem>: [pin_num, channel]
    adc_read_pins,     \* Vec<AdcReadPinTaskItem>: [pin_num, gpio32, gpio35]
    channel_idx,       \* index of the next LEDC channel
    store,             \* GPIO14_STATE .. GPIO33_STATE
    pin_level,         \* electrical level of each output: TRUE = high
    duty,              \* duty programmed into the channel of each PWM pin
    session,           \* state of the loop of ble::run
    gatt_live,         \* number of live gatt_events_task futures
    tel_live,          \* number of live custom_task futures
    tel_pc,            \* position of custom_task
    data,              \* `data` of custom_task: the buffer it notifies
    gatt_pc,           \* position of gatt_events_task
    peer_gone,         \* the central has left the connection
    gatt_event,        \* kind of the last GATT event gatt_events_task took
    gatt_replies,      \* replies sent for that event
    pin_data_output,   \* value the central was last notified of
    adc_data_output,   \* value the central was last notified of
    panicked,          \* "no", or the panic! that put the firmware in its
                       \* panic handler (loop {})
    batch,             \* the pin-write batch a handler is applying: whose,
                       \* its entries, how many are stored, the store it
                       \* found, and whether the handler is being polled
    wifi               \* the connection task of the Wi-Fi firmware: where it
                       \* awaits, and the state of the controller

\* What main of the BLE firmware builds.
mainVars == <<config, pc, gpio, basic_write_pins, basic_read_pins,
              pwm_write_pins, adc_read_pins, channel_idx>>

\* What no task of the BLE firmware and no HTTP handler changes once main
\* has allocated, the connection task of the Wi-Fi firmware included.
allocVars == <<mainVars, wifi>>

itemVars == <<config, pc, gpio, basic_write_pins, basic_read_pins,
              pwm_write_pins, channel_idx, wifi>>

hwVars == <<pin_level, duty>>

storeVars == <<store, batch>>

connVars == <<session, gatt_live, tel_live, tel_pc, data, gatt_pc, peer_gone>>

gattVars == <<gatt_event, gatt_replies>>

charVars == <<pin_data_output, adc_data_output>>

sessVars == <<connVars, gattVars, charVars>>

runVars == <<storeVars, hwVars, sessVars, panicked>>

vars == <<allocVars, runVars>>

(***************************************************************************)
(* Configurations.                                                         *)
(***************************************************************************)
\* All lists over S of exactly n elements.
SeqsOfLen(S, n) == [1..n -> S]

\* The length quadruples whose sum is at most n.
LenSplits(n) ==
    {t \in (0..n) \X (0..n) \X (0..n) \X (0..n) : t[1] + t[2] + t[3] + t[4] <= n}

\* struct Config of main.rs, without the device name: the configurations of
\* at most n pin numbers, the digital lists over D and the analog list over A.
ConfigsOver(D, A, n) ==
    UNION { [basic_write_pin_nums : SeqsOfLen(D, t[1]),
             basic_read_pin_nums  : SeqsOfLen(D, t[2]),
             pwm_write_pin_nums   : SeqsOfLen(D, t[3]),
             adc_read_pin_nums    : SeqsOfLen(A, t[4])] : t \in LenSplits(n) }

AllocConfigs == ConfigsOver(CfgPinNums, CfgPinNums, MaxCfgTotal)

\* The shortest analog list whose telemetry payload, one count byte and three
\* bytes per entry, is longer than `data`.
LongAdcList == [i \in 1..((DataLen - 1) \div 3 + 1) |-> 32]

LongAdcConfig ==
    [basic_write_pin_nums |-> <<>>, basic_read_pin_nums |-> <<>>,
     pwm_write_pin_nums |-> <<>>, adc_read_pin_nums |-> LongAdcList]

RunConfigs == ConfigsOver(RunDigitalNums, RunAdcNums, MaxRunTotal) \cup {LongAdcConfig}

(***************************************************************************)
(* Allocation (main.rs 86-219).                                            *)
(***************************************************************************)
\* A take that would leave the handle in the pool.
TakeKeepsHandle(pool, pin_num) == pool

\* Option::take on a pool entry that `match` selected: the handle leaves the
\* pool.

Take(pool, pin_num) == [pool EXCEPT ![pin_num] = FALSE]

\* A match that would yield Some for every arm, whatever the pool holds.
DigitalSomeIgnoresPool(pool, pin_num) == pin_num \in DigitalArms

\* `match pin_num { 14 => gpio14.take().map(..), .., _ => None }` of the three
\* digital loops: whether the result is Some.

DigitalSome(pool, pin_num) == pin_num \in DigitalArms /\ pool[pin_num]

\* The same for the analog loop.
AdcSome(pool, pin_num) == pin_num \in AdcArms /\ pool[pin_num]

\* The loop over basic_write_pin_nums and the one over basic_read_pin_nums:
\* the items pushed and the pool left.
RECURSIVE DigitalLoop(_, _, _)
DigitalLoop(nums, pool, items) ==
    IF nums = <<>> THEN [pool |-> pool, items |-> items]
    ELSE LET pin_num == Head(nums) IN
         IF DigitalSome(pool, pin_num)
         THEN DigitalLoop(Tail(nums), Take(pool, pin_num), Append(items, pin_num))
         ELSE DigitalLoop(Tail(nums), pool, items)

\* A loop that would bind every item to the channel of the first index.
RECURSIVE PwmLoopSameChannel(_, _, _, _)
PwmLoopSameChannel(nums, pool, items, idx) ==
    IF nums = <<>> THEN [pool |-> pool, items |-> items, idx |-> idx]
    ELSE LET pin_num == Head(nums) IN
         IF DigitalSome(pool, pin_num)
         THEN PwmLoopSameChannel(Tail(nums), Take(pool, pin_num),
                                 Append(items, [pin_num |-> pin_num, channel |-> idx]),
                                 idx)
         ELSE PwmLoopSameChannel(Tail(nums), pool, items, idx)

\* The loop over pwm_write_pin_nums: each item is bound to
\* CHANNELS[channel_idx], and channel_idx is incremented.
RECURSIVE PwmLoop(_, _, _, _)
PwmLoop(nums, pool, items, idx) ==
    IF nums = <<>> THEN [pool |-> pool, items |-> items, idx |-> idx]
    ELSE LET pin_num == Head(nums) IN
         IF DigitalSome(pool, pin_num)
         THEN PwmLoop(Tail(nums), Take(pool, pin_num),
                      Append(items, [pin_num |-> pin_num, channel |-> idx]),
                      idx + 1)
         ELSE PwmLoop(Tail(nums), pool, items, idx)

\* The AdcReadPinTaskItem built for a pin number.
AdcItem(pin_num) ==
    [pin_num |-> pin_num, gpio32 |-> (pin_num = 32), gpio35 |-> (pin_num = 35)]

\* The loop over adc_read_pin_nums.clone().
RECURSIVE AdcLoop(_, _, _)
AdcLoop(nums, pool, items) ==
    IF nums = <<>> THEN [pool |-> pool, items |-> items]
    ELSE LET pin_num == Head(nums) IN
         IF AdcSome(pool, pin_num)
         THEN AdcLoop(Tail(nums), Take(pool, pin_num), Append(items, AdcItem(pin_num)))
         ELSE AdcLoop(Tail(nums), pool, items)

\* The connection task as start_wifi spawns it (wifi.rs 108): it has not
\* run yet, the controller is not started and the station is not connected;
\* starts and connects count the calls of start_async and connect_async.
WifiSpawned ==
    [pc |-> "spawned", started |-> FALSE, sta |-> "Disconnected",
     starts |-> 0, connects |-> 0]

\* main before the first loop: every handle in the pool, no item.
InitRun ==
    /\ store = [p \in HwPins |-> 0]
    /\ batch = NoBatch
    /\ pin_level = [p \in HwPins |-> FALSE]
    /\ duty = [p \in HwPins |-> 0]
    /\ session = "NotStarted"
    /\ gatt_live = 0
    /\ tel_live = 0
    /\ tel_pc = "none"
    /\ data = NoData
    /\ gatt_pc = "none"
    /\ peer_gone = FALSE
    /\ gatt_event = "none"
    /\ gatt_replies = 0
    /\ pin_data_output = [i \in 1..DataLen |-> 0]
    /\ adc_data_output = [i \in 1..DataLen |-> 0]
    /\ panicked = "no"
    /\ wifi = WifiSpawned

InitMain ==
    /\ pc = "basic_write"
    /\ gpio = [p \in HwPins |-> TRUE]
    /\ basic_write_pins = <<>>
    /\ basic_read_pins = <<>>
    /\ pwm_write_pins = <<>>
    /\ adc_read_pins = <<>>
    /\ channel_idx = 0

AllocBasicWrite ==
    /\ pc = "basic_write"
    /\ LET r == DigitalLoop(config.basic_write_pin_nums, gpio, <<>>) IN
        /\ gpio' = r.pool
        /\ basic_write_pins' = r.items
    /\ pc' = "basic_read"
    /\ UNCHANGED <<config, basic_read_pins, pwm_write_pins, adc_read_pins, channel_idx, runVars, wifi>>

AllocBasicRead ==
    /\ pc = "basic_read"
    /\ LET r == DigitalLoop(config.basic_read_pin_nums, gpio, <<>>) IN
        /\ gpio' = r.pool
        /\ basic_read_pins' = r.items
    /\ pc' = "pwm_write"
    /\ UNCHANGED <<config, basic_write_pins, pwm_write_pins, adc_read_pins, channel_idx, runVars, wifi>>

AllocPwmWrite ==
    /\ pc = "pwm_write"
    /\ LET r == PwmLoop(config.pwm_write_pin_nums, gpio, <<>>, channel_idx) IN
        /\ gpio' = r.pool
        /\ pwm_write_pins' = r.items
        /\ channel_idx' = r.idx
    /\ pc' = "adc_read"
    /\ UNCHANGED <<config, basic_write_pins, basic_read_pins, adc_read_pins, runVars, wifi>>

AllocAdcRead ==
    /\ pc = "adc_read"
    /\ LET r == AdcLoop(config.adc_read_pin_nums, gpio, <<>>) IN
        /\ gpio' = r.pool
        /\ adc_read_pins' = r.items
    /\ pc' = "spawn"
    /\ UNCHANGED <<config, basic_write_pins, basic_read_pins, pwm_write_pins, channel_idx, runVars, wifi>>

NextAlloc == AllocBasicWrite \/ AllocBasicRead \/ AllocPwmWrite \/ AllocAdcRead

InitAlloc == config \in AllocConfigs /\ InitMain /\ InitRun

SpecAlloc == InitAlloc /\ [][NextAlloc]_vars

\* `const CHANNELS: [channel::Number; 8]`.
NumChannels == 8

\* pwm_write_pin_nums with more entries than there are channels.
LongPwmList == [i \in 1..(NumChannels + 1) |-> IF i = 1 THEN 26 ELSE 14]

\* Configurations for the allocation of the PWM role: every list of up to
\* MaxPwmList numbers over the four pins of the match and a number without an
\* arm, and the long list; pin 14 taken by the digital output role or not.
PwmAllocConfigs ==
    {[basic_write_pin_nums |-> w, basic_read_pin_nums |-> <<>>,
      pwm_write_pin_nums |-> l, adc_read_pin_nums |-> <<>>] :
        w \in {<<>>, <<14>>},
        l \in UNION {SeqsOfLen(DigitalArms \cup {7}, n) : n \in 0..MaxPwmList}
                 \cup {LongPwmList}}

InitPwmAlloc == config \in PwmAllocConfigs /\ InitMain /\ InitRun

SpecPwmAlloc == InitPwmAlloc /\ [][NextAlloc]_vars

(***************************************************************************)
(* The active set of each role: the pin numbers of its task items.         *)
(***************************************************************************)
Range(s) == {s[i] : i \in DOMAIN s}

PinNumsOf(items) == {items[i].pin_num : i \in DOMAIN items}

ActiveSet(role) ==
    CASE role = "basic_write" -> Range(basic_write_pins)
      [] role = "basic_read"  -> Range(basic_read_pins)
      [] role = "pwm_write"   -> PinNumsOf(pwm_write_pins)
      [] role = "adc_read"    -> PinNumsOf(adc_read_pins)

\* The pin numbers of the item list of a role, in list order.
ItemNums(role) ==
    CASE role = "basic_write" -> basic_write_pins
      [] role = "basic_read"  -> basic_read_pins
      [] role = "pwm_write"   -> [i \in DOMAIN pwm_write_pins |-> pwm_write_pins[i].pin_num]
      [] role = "adc_read"    -> [i \in DOMAIN adc_read_pins |-> adc_read_pins[i].pin_num]

\* The configured list of a role.
Configured(role) ==
    CASE role = "basic_write" -> config.basic_write_pin_nums
      [] role = "basic_read"  -> config.basic_read_pin_nums
      [] role = "pwm_write"   -> config.pwm_write_pin_nums
      [] role = "adc_read"    -> config.adc_read_pin_nums

\* The pin numbers a role can be wired to: the arms of its match.
Wirable(role) == IF role = "adc_read" THEN AdcArms ELSE DigitalArms

(***************************************************************************)
(* The end of main: the four polling tasks are spawned and ble::run is     *)
(* awaited (main.rs 221-235).                                              *)
(***************************************************************************)
Spawn ==
    /\ pc = "spawn"
    /\ pc' = "running"
    /\ session' = "Advertising"
    /\ UNCHANGED <<config, gpio, basic_write_pins, basic_read_pins, pwm_write_pins,
                   adc_read_pins, channel_idx, storeVars, hwVars, gatt_live,
                   tel_live, tel_pc, data, gatt_pc, peer_gone, gattVars,
                   charVars, panicked, wifi>>

\* main has spawned the tasks and no task sits in the panic handler, whose
\* `loop {}` never gives the executor back.
Started == pc = "running" /\ panicked = "no"

\* The executor can poll a task: every task is spawned on the one executor
\* of #[esp_rtos::main], which polls one task at a time, up to its next
\* await; it polls no task while a handler it is polling applies a batch.
Running == Started /\ ~batch.polling

(***************************************************************************)
(* The state slots (pin.rs 18-23) as the tasks and handlers address them.  *)
(***************************************************************************)
\* The `match pin_num` of the two output drivers: the load of the slot.
OutputLoad(st, pin_num) == IF pin_num \in {14, 26, 25, 33} THEN st[pin_num] ELSE 0

\* The `match item.pin_num` of basic_read_pin_task: the store.
BasicReadStore(st, pin_num, value) ==
    IF pin_num \in {14, 26, 25, 33} THEN [st EXCEPT ![pin_num] = value] ELSE st

\* The last `match item.pin_num` of adc_read_pin_task: the store.
AdcStore(st, pin_num, value) ==
    IF pin_num \in {35, 32} THEN [st EXCEPT ![pin_num] = value] ELSE st

\* A match that would have an arm for every pin with a slot.
BleStoreAnySlot(st, pin_num, state) ==
    IF pin_num \in HwPins THEN [st EXCEPT ![pin_num] = state] ELSE st

\* The `match pin_write.pin_num` of gatt_events_task: `state as u32` is stored.
BleStore(st, pin_num, state) ==
    IF pin_num \in {14, 26, 25, 33} THEN [st EXCEPT ![pin_num] = state] ELSE st

\* A match that would have an arm for every pin with a slot.
WebStoreAnySlot(st, pin_num, state) ==
    IF pin_num \in HwPins THEN [st EXCEPT ![pin_num] = state] ELSE st

\* The `match item.pin_num` of write_pins_handler.
WebStore(st, pin_num, state) ==
    IF pin_num \in {14, 26, 25, 33} THEN [st EXCEPT ![pin_num] = state] ELSE st

\* `state as i32` of a 32-bit slot value: values above i32::MAX wrap by 2^32.
AsI32(value) ==
    IF value > 2147483647 THEN ((value - 2147483647) - 2147483647) - 2 ELSE value

\* A match that would have arms for the digital pins only.
WebLoadDigitalOnly(st, pin_num) ==
    AsI32(IF pin_num \in {14, 26, 25, 33} THEN st[pin_num] ELSE 0)

\* The `match pin_num` of read_pins_handler, and the cast.
WebLoad(st, pin_num) ==
    AsI32(IF pin_num \in {14, 26, 25, 33, 32, 35} THEN st[pin_num] ELSE 0)

\* The slots that differ between two stores.
Changed(st1, st2) == {p \in HwPins : st1[p] # st2[p]}

(***************************************************************************)
(* The polling tasks (pin.rs). One action is one pass of the `for` loop:   *)
(* the loop bodies do not await.                                           *)
(***************************************************************************)
\* `if state == 100 { High } else { Low }`.
LevelFor(state) == state = 100

\* basic_write_pin_task (pin.rs 30-50).
BasicWriteCycle ==
    /\ Running
    /\ pin_level' = [p \in HwPins |->
                        IF p \in Range(basic_write_pins)
                        THEN LevelFor(OutputLoad(store, p))
                        ELSE pin_level[p]]
    /\ UNCHANGED <<allocVars, storeVars, duty, sessVars, panicked>>

\* max_duty_cycle() of a channel on the 12-bit timer main configures.
MaxDutyCycle == 4096

\* A duty that would take the slot value as the duty itself.
DutyUnscaled(state, max_duty) == state

\* `(state as u32 * max_duty) / 100`, then `duty as u16`.
DutyFor(state, max_duty) == ((state * max_duty) \div 100) % 65536

\* pwm_write_pin_task (pin.rs 58-76): set_duty_cycle succeeds for the items
\* in `ok`; its error is dropped by `let _ =`.
PwmWriteCycle ==
    /\ Running
    /\ \E ok \in SUBSET PinNumsOf(pwm_write_pins) :
          duty' = [p \in HwPins |->
                      IF p \in ok
                      THEN DutyFor(OutputLoad(store, p), MaxDutyCycle)
                      ELSE duty[p]]
    /\ UNCHANGED <<allocVars, storeVars, pin_level, sessVars, panicked>>

\* A match that would store 1 for a high level.
LevelStateOne(high) == IF high THEN 1 ELSE 0

\* `match state { Level::Low => 0, Level::High => 100 }`.
LevelState(high) == IF high THEN 100 ELSE 0

RECURSIVE BasicReadLoop(_, _, _)
BasicReadLoop(items, levels, st) ==
    IF items = <<>> THEN st
    ELSE BasicReadLoop(Tail(items), levels,
                       BasicReadStore(st, Head(items), LevelState(levels[Head(items)])))

\* basic_read_pin_task (pin.rs 84-104): `levels` are the electrical levels
\* of the owned pins in this pass.
BasicReadCycle ==
    /\ Running
    /\ \E levels \in [Range(basic_read_pins) -> BOOLEAN] :
          store' = BasicReadLoop(basic_read_pins, levels, store)
    /\ UNCHANGED <<allocVars, batch, hwVars, sessVars, panicked>>

\* The converter pin handle an item holds for its own pin number
\* (item.gpio35 / item.gpio32): TRUE = Some.
HasHandle(item) ==
    CASE item.pin_num = 35 -> item.gpio35
      [] item.pin_num = 32 -> item.gpio32
      [] OTHER -> FALSE

\* `item.gpioNN.take()`, and `item.gpioNN = Some(gpioNN)`.
WithHandle(item, some) ==
    CASE item.pin_num = 35 -> [item EXCEPT !.gpio35 = some]
      [] item.pin_num = 32 -> [item EXCEPT !.gpio32 = some]
      [] OTHER -> item

\* An error branch that would not put the handle back.
AfterErrorLosesHandle(item) == WithHandle(item, FALSE)

\* The item after a failed conversion: the handle is put back before
\* `continue`.
AfterError(item) == WithHandle(WithHandle(item, FALSE), TRUE)

\* A success branch that would not put the handle back.
AfterOkLosesHandle(item) == WithHandle(item, FALSE)

\* The item after a successful conversion: the handle is put back.

AfterOk(item) == WithHandle(WithHandle(item, FALSE), TRUE)

\* An item step that would store 0 when the conversion fails.
AdcItemStepStoresOnError(item, result, st) ==
    IF item.pin_num \in {35, 32} /\ HasHandle(item)
    THEN [item |-> AfterOk(item),
          st |-> AdcStore(st, item.pin_num, IF result.ok THEN result.value ELSE 0),
          stored |-> TRUE]
    ELSE [item |-> item, st |-> AdcStore(st, item.pin_num, 0), stored |-> FALSE]

\* One item of a pass of adc_read_pin_task (pin.rs 121-159) with conversion
\* result `result`: the item and the store after, and whether a store to the
\* slot was executed.

AdcItemStep(item, result, st) ==
    IF item.pin_num \in {35, 32}
    THEN IF HasHandle(item)
         THEN IF ~result.ok
              THEN [item |-> AfterError(item), st |-> st, stored |-> FALSE]
              ELSE [item |-> AfterOk(item),
                    st |-> AdcStore(st, item.pin_num, result.value), stored |-> TRUE]
         ELSE [item |-> item, st |-> AdcStore(st, item.pin_num, 0), stored |-> TRUE]
    ELSE [item |-> item, st |-> AdcStore(st, item.pin_num, 0), stored |-> FALSE]

RECURSIVE AdcReadLoop(_, _, _, _, _)
AdcReadLoop(items, results, st, stored, i) ==
    IF i > Len(items) THEN [items |-> items, st |-> st, stored |-> stored]
    ELSE LET r == AdcItemStep(items[i], results[i], st) IN
         AdcReadLoop([items EXCEPT ![i] = r.item], results, r.st,
                     IF r.stored THEN stored \cup {items[i].pin_num} ELSE stored,
                     i + 1)

\* adc_read_pin_task (pin.rs 113-164): `results` are the outcomes of
\* read_oneshot for the items of this pass.
AdcReadCycle ==
    /\ Running
    /\ \E results \in [DOMAIN adc_read_pins -> AdcResults] :
          LET r == AdcReadLoop(adc_read_pins, results, store, {}, 1) IN
              /\ adc_read_pins' = r.items
              /\ store' = r.st
              /\ UNCHANGED <<itemVars, batch, hwVars, sessVars, panicked>>

(***************************************************************************)
(* The HTTP handlers (web.rs 56-91).                                       *)
(***************************************************************************)
\* struct PinWriteItem: pin_num and state are u8. The entries explored: both
\* values for the pin with an arm, one for the number without.
PinWriteItems ==
    {it \in [pin_num : WritePinNums, state : ReqStates] :
        it.pin_num \in {14, 26, 25, 33} \/ it.state = 100}

\* The pin_writes of a PinRequest.
Batches == UNION {[1..n -> PinWriteItems] : n \in 0..MaxBatch}

\* The pin_reads of a PinReadRequest.
ReadRequests == UNION {[1..n -> ReadPinNums] : n \in 0..MaxReads}

\* A handler that would apply the first entry only.
WebWriteFirstOnly(pin_writes, st) ==
    IF pin_writes = <<>> THEN st
    ELSE WebStore(st, Head(pin_writes).pin_num, Head(pin_writes).state)

\* `for item in &input.0.pin_writes { match item.pin_num { .. } }`.
RECURSIVE WebWriteLoop(_, _)
WebWriteLoop(pin_writes, st) ==
    IF pin_writes = <<>> THEN st
    ELSE WebWriteLoop(Tail(pin_writes),
                      WebStore(st, Head(pin_writes).pin_num, Head(pin_writes).state))

\* The pin numbers of a batch that an arm of the write `match` stores to.
StoredPins(pin_writes) ==
    {pin_writes[i].pin_num : i \in DOMAIN pin_writes} \cap {14, 26, 25, 33}

\* The PinWriteResponse of write_pins_handler.
PinWriteResponse == [success |-> TRUE]

\* write_pins_handler.
WritePinsHandler(pin_writes) ==
    /\ Running
    /\ PinWriteResponse.success
    /\ store' = WebWriteLoop(pin_writes, store)
    /\ UNCHANGED <<allocVars, batch, hwVars, sessVars, panicked>>

\* The pin_reads of the PinReadResponse.
WebReadItems(pin_reads, st) ==
    [i \in DOMAIN pin_reads |->
        [pin_num |-> pin_reads[i], state |-> WebLoad(st, pin_reads[i])]]

\* The PinReadResponse of read_pins_handler for a request, on store st.
PinReadResponse(pin_reads, st) ==
    [pin_reads |-> WebReadItems(pin_reads, st), success |-> TRUE]

\* read_pins_handler: the response leaves with the step; no state changes.
ReadPinsHandler(pin_reads) ==
    /\ Running
    /\ PinReadResponse(pin_reads, store).success
    /\ UNCHANGED vars

(***************************************************************************)
(* The session machine: the loop of ble::run (ble.rs 79-97).               *)
(***************************************************************************)
\* A panic after which the loop of run would advertise again.
PanicRestarts(site) ==
    /\ panicked' = site
    /\ session' = "Advertising"
    /\ UNCHANGED <<gatt_live, tel_live, tel_pc, data, gatt_pc, peer_gone>>

\* panic!: the panic handler of main.rs is `loop {}`, on the only executor.
Panic(site) ==
    /\ panicked' = site
    /\ session' = "Failed"
    /\ UNCHANGED <<gatt_live, tel_live, tel_pc, data, gatt_pc, peer_gone>>

\* A select that would leave both sub-flows alive when it returns.
SelectKeepsLoser ==
    /\ session' = "Advertising"
    /\ UNCHANGED <<gatt_live, tel_live, tel_pc, data, gatt_pc, peer_gone, panicked>>

\* A select that would drop the event sub-flow only and leave the telemetry
\* sub-flow running.
SelectKeepsTelemetry ==
    /\ session' = "Advertising"
    /\ gatt_live' = gatt_live - 1
    /\ gatt_pc' = "none"
    /\ UNCHANGED <<tel_live, tel_pc, data, peer_gone, panicked>>

\* `select(a, b).await` returns because one sub-flow finished: both futures
\* are dropped, with their locals and wherever they await, and the loop goes
\* back to advertise().
SelectDone ==
    /\ session' = "Advertising"
    /\ gatt_live' = gatt_live - 1
    /\ tel_live' = tel_live - 1
    /\ tel_pc' = "none"
    /\ data' = NoData
    /\ gatt_pc' = "none"
    /\ UNCHANGED <<peer_gone, panicked>>

\* The `Err(e)` arm of the match on advertise(): panic!.
AdvertiseFailed == Panic("advertise")

\* advertise() returned Ok(conn): the two sub-flows are created and raced.
\* The first poll of the select takes gatt_events_task to conn.next() and
\* custom_task, with its buffer composed, to the first notify.
Advertise ==
    /\ Running
    /\ session = "Advertising"
    /\ session' = "Connected"
    /\ gatt_live' = gatt_live + 1
    /\ tel_live' = tel_live + 1
    /\ tel_pc' = "pin"
    /\ data' = FirstData
    /\ gatt_pc' = "next"
    /\ peer_gone' = FALSE
    /\ gatt_event' = "none"
    /\ gatt_replies' = 0
    /\ UNCHANGED <<allocVars, storeVars, hwVars, charVars, panicked>>

\* advertise() returned Err: encoding the advertisement, advertising,
\* accepting or attaching the attribute server failed (ble.rs 234-251).
AdvertiseError ==
    /\ Running
    /\ session = "Advertising"
    /\ AdvertiseFailed
    /\ UNCHANGED <<allocVars, storeVars, hwVars, gattVars, charVars>>

\* ble_task (ble.rs 115-122): runner.run() returned an error.
BleTaskError ==
    /\ Running
    /\ session \in {"Advertising", "Connected"}
    /\ Panic("ble_task")
    /\ UNCHANGED <<allocVars, storeVars, hwVars, gattVars, charVars>>

\* The central leaves the connection (or the link is lost).
PeerDisconnect ==
    /\ Running
    /\ session = "Connected"
    /\ ~peer_gone
    /\ peer_gone' = TRUE
    /\ UNCHANGED <<allocVars, storeVars, hwVars, session, gatt_live, tel_live,
                   tel_pc, data, gatt_pc, gattVars, charVars, panicked>>

(***************************************************************************)
(* gatt_events_task (ble.rs 128-225).                                      *)
(***************************************************************************)
\* The bytes of a write, by what from_utf8 and serde_json_core::from_str
\* make of them.
NoPayload == [text |-> "none", pin_writes |-> <<>>]

\* What conn.next() returns, with the results of the calls the handler makes
\* on it: server.get (get_ok), event.accept (accept_ok), whether
\* reply.send() completes in the poll that took the event (send_now), and
\* whether the reply that the drop of an unaccepted event attempts is sent
\* (drop_sent).
ConnEvent(kind, handle, get_ok, payload, accept_ok, send_now, drop_sent) ==
    [kind |-> kind, handle |-> handle, get_ok |-> get_ok, payload |-> payload,
     accept_ok |-> accept_ok, send_now |-> send_now, drop_sent |-> drop_sent]

\* The results of event.accept() and of the first poll of reply.send(): an
\* event that is not accepted has no reply to send.
AcceptResults ==
    {[accept_ok |-> FALSE, send_now |-> TRUE],
     [accept_ok |-> TRUE, send_now |-> TRUE],
     [accept_ok |-> TRUE, send_now |-> FALSE]}

\* The event is accepted and its reply is sent at once.
Sent == [accept_ok |-> TRUE, send_now |-> TRUE]

\* Only the results a path consults vary.
ConnEvents ==
    {ConnEvent("Disconnected", "none", TRUE, NoPayload, TRUE, TRUE, TRUE),
     ConnEvent("ConnOther", "none", TRUE, NoPayload, TRUE, TRUE, TRUE)}
    \cup {ConnEvent("Read", h, TRUE, NoPayload, a.accept_ok, a.send_now, TRUE) :
              h \in {"pin_data_output", "adc_data_output", "pin_data_input"},
              a \in AcceptResults}
    \cup {ConnEvent("Read", h, FALSE, NoPayload, TRUE, TRUE, d) :
              h \in {"pin_data_output", "adc_data_output"}, d \in BOOLEAN}
    \cup {ConnEvent("Write", "pin_data_input", TRUE,
                    [text |-> "not_utf8", pin_writes |-> <<>>], TRUE, TRUE, TRUE)}
    \cup {ConnEvent("Write", "pin_data_input", TRUE,
                    [text |-> "bad_json", pin_writes |-> <<>>], TRUE, TRUE, d) :
              d \in BOOLEAN}
    \cup {ConnEvent("Write", "pin_data_input", TRUE,
                    [text |-> "pin_request", pin_writes |-> b],
                    a.accept_ok, a.send_now, TRUE) :
              b \in Batches, a \in AcceptResults}
    \cup {ConnEvent("GattOther", "none", TRUE, NoPayload,
                    a.accept_ok, a.send_now, TRUE) : a \in AcceptResults}

\* `pin_request.pin_writes.iter().for_each(..)`.
RECURSIVE BleWriteLoop(_, _)
BleWriteLoop(pin_writes, st) ==
    IF pin_writes = <<>> THEN st
    ELSE BleWriteLoop(Tail(pin_writes),
                      BleStore(st, Head(pin_writes).pin_num, Head(pin_writes).state))

\* The explicit acknowledgement at the end of the Gatt arm (ble.rs 212-218):
\* the number of replies sent in the poll that took the event.
Accept(ev) == IF ev.accept_ok /\ ev.send_now THEN 1 ELSE 0

\* How the loop goes on from `Ok(reply) => reply.send().await`: the task
\* awaits there ("send") until the reply is sent.
AfterAccept(ev) == IF ev.accept_ok /\ ~ev.send_now THEN "send" ELSE "next"

\* An event that leaves the arm before that step is dropped unaccepted: its
\* drop attempts the reply, which may not be sent.
Dropped(ev) == IF ev.drop_sent THEN 1 ELSE 0

\* What the non-UTF-8 arm of a write does (ble.rs 202-204): panic!.
NotUtf8(ev, st) == [flow |-> "panic", st |-> st, stored |-> {}, replies |-> 0]

\* The body of the loop for one event, up to its next await: how the loop
\* goes on ("next": it takes the next event, "send": it awaits reply.send(),
\* "return": the task ends, "panic"), the store after, the slots stored to
\* and the replies sent for the event so far.
GattHandle(ev, st) ==
    CASE ev.kind = "Disconnected" ->
            [flow |-> "return", st |-> st, stored |-> {}, replies |-> 0]
      [] ev.kind = "ConnOther" ->
            [flow |-> "next", st |-> st, stored |-> {}, replies |-> 0]
      [] ev.kind = "Read" ->
            IF ev.handle \in {"pin_data_output", "adc_data_output"} /\ ~ev.get_ok
            THEN [flow |-> "return", st |-> st, stored |-> {}, replies |-> Dropped(ev)]
            ELSE [flow |-> AfterAccept(ev), st |-> st, stored |-> {},
                  replies |-> Accept(ev)]
      [] ev.kind = "Write" ->
            CASE ev.payload.text = "not_utf8" -> NotUtf8(ev, st)
              [] ev.payload.text = "bad_json" ->
                    [flow |-> "next", st |-> st, stored |-> {}, replies |-> Dropped(ev)]
              [] OTHER ->
                    [flow |-> AfterAccept(ev),
                     st |-> BleWriteLoop(ev.payload.pin_writes, st),
                     stored |-> StoredPins(ev.payload.pin_writes),
                     replies |-> Accept(ev)]
      [] OTHER ->
            [flow |-> AfterAccept(ev), st |-> st, stored |-> {},
             replies |-> Accept(ev)]

\* Whether the event is a GattConnectionEvent::Gatt.
IsGatt(ev) == ev.kind \in {"Read", "Write", "GattOther"}

\* The poll of gatt_events_task in which conn.next() returns ev: from there
\* to the next await, which is conn.next() again or reply.send(). Once the
\* central is gone the only event is Disconnected.
GattEvent(ev) ==
    /\ Running
    /\ gatt_live > 0
    /\ gatt_pc = "next"
    /\ (ev.kind = "Disconnected") <=> peer_gone
    /\ LET o == GattHandle(ev, store) IN
        /\ store' = o.st
        /\ gatt_event' = IF IsGatt(ev) THEN "Gatt" ELSE gatt_event
        /\ gatt_replies' = IF IsGatt(ev) THEN o.replies ELSE gatt_replies
        /\ CASE o.flow = "next" -> UNCHANGED <<connVars, panicked>>
             [] o.flow = "send" ->
                    /\ gatt_pc' = "send"
                    /\ UNCHANGED <<session, gatt_live, tel_live, tel_pc, data,
                                   peer_gone, panicked>>
             [] o.flow = "return" -> SelectDone
             [] OTHER -> Panic("from_utf8")
    /\ UNCHANGED <<allocVars, batch, hwVars, charVars>>

\* The poll in which `reply.send().await` completes: the reply is sent and
\* the loop is back at conn.next().
GattSend ==
    /\ Running
    /\ gatt_live > 0
    /\ gatt_pc = "send"
    /\ gatt_replies' = gatt_replies + 1
    /\ gatt_pc' = "next"
    /\ UNCHANGED <<allocVars, storeVars, hwVars, session, gatt_live, tel_live,
                   tel_pc, data, peer_gone, gatt_event, charVars, panicked>>

(***************************************************************************)
(* custom_task (ble.rs 260-305).                                           *)
(***************************************************************************)
\* A pair that would keep the low byte only.
U32ToU8PairLowOnly(value) == <<0, value % 256>>

\* u32_to_u8_pair (ble.rs 307-311).

U32ToU8Pair(value) == <<(value \div 256) % 256, value % 256>>

\* The `match pin_num` of custom_task: the load of the slot.
TelLoad(st, pin_num) == IF pin_num \in {35, 32} THEN st[pin_num] ELSE 0

RECURSIVE AdcTriples(_, _)
AdcTriples(nums, st) ==
    IF nums = <<>> THEN <<>>
    ELSE LET pair == U32ToU8Pair(TelLoad(st, Head(nums))) IN
         <<Head(nums) % 256, pair[1], pair[2]>> \o AdcTriples(Tail(nums), st)

\* demo_adc_data: `num_pins as u8`, then one triple per number of the list
\* custom_task was given.
AdcData(nums, st) == <<Len(nums) % 256>> \o AdcTriples(nums, st)

\* The list ble::run hands to custom_task (main.rs 235, ble.rs 85).
TelemetryPins == config.adc_read_pin_nums

\* A notify whose failure would end the task, as that of rssi does.
AfterNotifyBreaks(ok) == IF ok THEN "next" ELSE "break"

\* `if characteristic.notify(conn, &data).await.is_ok() { info!(..) }`: how
\* custom_task goes on after a notify. The result only decides on the log
\* line.

AfterNotify(ok) == "next"

\* `if let Ok(rssi) = conn.raw().rssi(stack).await { .. } else { .. break }`.
AfterRssi(ok) == IF ok THEN "next" ELSE "break"

\* The value the central holds after a notify of buf: the one it had when
\* the notify failed.
Notified(ok, old, buf) == IF ok THEN buf ELSE old

\* The poll in which the first notify of an iteration completes, with
\* result `ok` (a central that is gone cannot be notified), up to the next
\* await (ble.rs 272-292): the slots are loaded, demo_adc_data is composed
\* and copied over the same buffer, and the second notify is awaited. A
\* payload longer than the buffer makes the slice index panic.
TelNotifyPin(ok) ==
    /\ Running
    /\ tel_live > 0
    /\ tel_pc = "pin"
    /\ peer_gone => ~ok
    /\ pin_data_output' = Notified(ok, pin_data_output, data)
    /\ IF AfterNotify(ok) = "next"
       THEN LET demo_adc_data == AdcData(TelemetryPins, store) IN
            IF Len(demo_adc_data) > DataLen
            THEN /\ Panic("copy_from_slice")
            ELSE /\ data' = CopyPrefix(data, demo_adc_data)
                 /\ tel_pc' = "adc"
                 /\ UNCHANGED <<session, gatt_live, tel_live, gatt_pc, peer_gone,
                                panicked>>
       ELSE /\ SelectDone
    /\ UNCHANGED <<allocVars, storeVars, hwVars, gattVars, adc_data_output>>

\* The poll in which the second notify completes, with result `ok`: the
\* central is notified of the buffer as it was composed before the await,
\* and the RSSI is asked for.
TelNotifyAdc(ok) ==
    /\ Running
    /\ tel_live > 0
    /\ tel_pc = "adc"
    /\ peer_gone => ~ok
    /\ adc_data_output' = Notified(ok, adc_data_output, data)
    /\ IF AfterNotify(ok) = "next"
       THEN /\ tel_pc' = "rssi"
            /\ UNCHANGED <<session, gatt_live, tel_live, data, gatt_pc, peer_gone>>
       ELSE /\ SelectDone
    /\ UNCHANGED <<allocVars, storeVars, hwVars, gattVars, pin_data_output, panicked>>

\* The third step: the RSSI is read; it cannot be once the central is gone.
\* An error ends the task, and with it the select.
TelRssi(ok) ==
    /\ Running
    /\ tel_live > 0
    /\ tel_pc = "rssi"
    /\ peer_gone => ~ok
    /\ IF AfterRssi(ok) = "next"
       THEN /\ tel_pc' = "sleep"
            /\ UNCHANGED <<session, gatt_live, tel_live, data, gatt_pc, peer_gone,
                           panicked>>
       ELSE SelectDone
    /\ UNCHANGED <<allocVars, storeVars, hwVars, gattVars, charVars>>

\* Timer::after_secs(2) has expired: the next iteration composes its
\* buffer and awaits the first notify.
TelTimer ==
    /\ Running
    /\ tel_live > 0
    /\ tel_pc = "sleep"
    /\ tel_pc' = "pin"
    /\ data' = FirstData
    /\ UNCHANGED <<allocVars, storeVars, hwVars, session, gatt_live, tel_live,
                   gatt_pc, peer_gone, gattVars, charVars, panicked>>

(***************************************************************************)
(* A pin-write batch store by store: the polls of gatt_events_task          *)
(* (ble.rs 136-218) and of write_pins_handler (web.rs 56-68) that GattEvent *)
(* and WritePinsHandler take in one step, here one step per slot store.     *)
(***************************************************************************)
\* A loop body that would await after its store (a yield or a timer inside
\* the loop): the handler gives the executor back between two entries.
AfterStoreYields(b) == [b EXCEPT !.done = @ + 1, !.polling = FALSE]

\* The batch after the body of the loop has run for one entry: neither the
\* closure of for_each (ble.rs 187-201) nor the body of the `for` of
\* write_pins_handler (web.rs 57-66) awaits, so the handler is still being
\* polled.

AfterStore(b) == [b EXCEPT !.done = @ + 1, !.polling = TRUE]

\* conn.next() returns a write event whose data parses as a PinRequest with
\* these pin_writes: gatt_events_task is at the for_each.
BleBatchBegin(pin_writes) ==
    /\ Running
    /\ gatt_live > 0
    /\ gatt_pc = "next"
    /\ ~peer_gone
    /\ batch' = [task |-> "gatt", pin_writes |-> pin_writes, done |-> 0,
                 before |-> store, polling |-> TRUE]
    /\ gatt_event' = "Gatt"
    /\ gatt_replies' = 0
    /\ UNCHANGED <<allocVars, store, hwVars, connVars, charVars, panicked>>

\* One call of the closure of for_each: the `match pin_write.pin_num`.
BleBatchStore ==
    /\ Started
    /\ batch.task = "gatt"
    /\ batch.done < Len(batch.pin_writes)
    /\ LET pin_write == batch.pin_writes[batch.done + 1] IN
           store' = BleStore(store, pin_write.pin_num, pin_write.state)
    /\ batch' = AfterStore(batch)
    /\ UNCHANGED <<allocVars, hwVars, sessVars, panicked>>

\* After the last entry: event.accept() and reply.send() (ble.rs 212-218),
\* with results a; the poll ends at reply.send() or at conn.next().
BleBatchEnd(a) ==
    /\ Started
    /\ batch.task = "gatt"
    /\ batch.done = Len(batch.pin_writes)
    /\ batch' = NoBatch
    /\ gatt_replies' = Accept(a)
    /\ gatt_pc' = AfterAccept(a)
    /\ UNCHANGED <<allocVars, store, hwVars, session, gatt_live, tel_live, tel_pc,
                   data, peer_gone, gatt_event, charVars, panicked>>

\* write_pins_handler is called with these pin_writes: it is at its `for`.
WebBatchBegin(pin_writes) ==
    /\ Running
    /\ batch' = [task |-> "web", pin_writes |-> pin_writes, done |-> 0,
                 before |-> store, polling |-> TRUE]
    /\ UNCHANGED <<allocVars, store, hwVars, sessVars, panicked>>

\* One pass of the body of the `for`: the `match item.pin_num`.
WebBatchStore ==
    /\ Started
    /\ batch.task = "web"
    /\ batch.done < Len(batch.pin_writes)
    /\ LET item == batch.pin_writes[batch.done + 1] IN
           store' = WebStore(store, item.pin_num, item.state)
    /\ batch' = AfterStore(batch)
    /\ UNCHANGED <<allocVars, hwVars, sessVars, panicked>>

\* After the last entry the handler returns its PinWriteResponse.
WebBatchEnd ==
    /\ Started
    /\ batch.task = "web"
    /\ batch.done = Len(batch.pin_writes)
    /\ PinWriteResponse.success
    /\ batch' = NoBatch
    /\ UNCHANGED <<allocVars, store, hwVars, sessVars, panicked>>

\* A step of a handler inside its batch.
BatchStep == BleBatchStore \/ \E a \in AcceptResults : BleBatchEnd(a)
                 \/ WebBatchStore \/ WebBatchEnd

(***************************************************************************)
(* The connection task of the Wi-Fi firmware (wifi.rs 22-66). One action   *)
(* is the run of the task from one await to the next.                      *)
(***************************************************************************)
\* From `if !matches!(controller.is_started(), Ok(true))` to the next await:
\* a controller that is not started is configured, which panics on an error
\* (unwrap), and start_async is awaited; a started one goes to
\* connect_async.
CheckStarted(w, set_config_ok) ==
    IF ~w.started
    THEN IF set_config_ok
         THEN [w EXCEPT !.pc = "start_async", !.starts = @ + 1]
         ELSE [w EXCEPT !.pc = "panicked"]
    ELSE [w EXCEPT !.pc = "connect_async", !.connects = @ + 1]

\* From the top of the loop to the next await: a connected station waits for
\* StaDisconnected.
LoopTop(w, set_config_ok) ==
    IF w.sta = "Connected"
    THEN [w EXCEPT !.pc = "wait_for_event"]
    ELSE CheckStarted(w, set_config_ok)

\* The task runs for the first time.
WifiTaskStart(set_config_ok) ==
    /\ wifi.pc = "spawned"
    /\ wifi' = LoopTop(wifi, set_config_ok)
    /\ UNCHANGED <<mainVars, runVars>>

\* start_async returned: `.unwrap()`, then the scan is awaited.
WifiStarted(ok) ==
    /\ wifi.pc = "start_async"
    /\ wifi' = IF ok THEN [wifi EXCEPT !.started = TRUE, !.pc = "scan"]
                     ELSE [wifi EXCEPT !.pc = "panicked"]
    /\ UNCHANGED <<mainVars, runVars>>

\* scan_with_config_async returned: `.unwrap()`, the access points are
\* printed, then connect_async is awaited.
WifiScanned(ok) ==
    /\ wifi.pc = "scan"
    /\ wifi.connects < MaxConnects
    /\ wifi' = IF ok THEN [wifi EXCEPT !.pc = "connect_async", !.connects = @ + 1]
                     ELSE [wifi EXCEPT !.pc = "panicked"]
    /\ UNCHANGED <<mainVars, runVars>>

\* connect_async returned: Ok leads to the top of the loop with the station
\* connected, Err to the 5 s timer.
WifiConnected(ok) ==
    /\ wifi.pc = "connect_async"
    /\ wifi' = IF ok THEN LoopTop([wifi EXCEPT !.sta = "Connected"], TRUE)
                     ELSE [wifi EXCEPT !.pc = "timer_failed"]
    /\ UNCHANGED <<mainVars, runVars>>

\* The StaDisconnected event arrives for the waiting task: the 5 s timer is
\* awaited.
WifiStaDisconnected ==
    /\ wifi.pc = "wait_for_event"
    /\ wifi' = [wifi EXCEPT !.sta = "Disconnected", !.pc = "timer_disconnected"]
    /\ UNCHANGED <<mainVars, runVars>>

\* A 5 s timer has expired: the one after the disconnection goes on to the
\* check of is_started, the one after the failed connect to the top of the
\* loop.
WifiTimer(set_config_ok) ==
    /\ wifi.pc \in {"timer_disconnected", "timer_failed"}
    /\ wifi.connects < MaxConnects
    /\ wifi' = IF wifi.pc = "timer_disconnected"
               THEN CheckStarted(wifi, set_config_ok)
               ELSE LoopTop(wifi, set_config_ok)
    /\ UNCHANGED <<mainVars, runVars>>

NextWifi ==
    \/ \E ok \in BOOLEAN : WifiTaskStart(ok)
    \/ \E ok \in BOOLEAN : WifiStarted(ok)
    \/ \E ok \in BOOLEAN : WifiScanned(ok)
    \/ \E ok \in BOOLEAN : WifiConnected(ok)
    \/ WifiStaDisconnected
    \/ \E ok \in BOOLEAN : WifiTimer(ok)

\* The Wi-Fi firmware has no pin configuration.
NoPins ==
    [basic_write_pin_nums |-> <<>>, basic_read_pin_nums |-> <<>>,
     pwm_write_pin_nums |-> <<>>, adc_read_pin_nums |-> <<>>]

InitWifi == config = NoPins /\ InitMain /\ InitRun

SpecWifi == InitWifi /\ [][NextWifi]_vars

(***************************************************************************)
(* Specifications.                                                         *)
(***************************************************************************)
Init == config \in RunConfigs /\ InitMain /\ InitRun

NextPolling == BasicWriteCycle \/ PwmWriteCycle \/ BasicReadCycle \/ AdcReadCycle

\* In Spec a notify fails when the central is gone and only then;
\* SpecTelemetry explores the failures with the central there.
NextSession ==
    \/ Advertise
    \/ AdvertiseError
    \/ BleTaskError
    \/ PeerDisconnect
    \/ \E ev \in ConnEvents : GattEvent(ev)
    \/ GattSend
    \/ TelNotifyPin(~peer_gone)
    \/ TelNotifyAdc(~peer_gone)
    \/ \E ok \in BOOLEAN : TelRssi(ok)
    \/ TelTimer

NextWeb ==
    \/ \E pin_writes \in Batches : WritePinsHandler(pin_writes)
    \/ \E pin_reads \in ReadRequests : ReadPinsHandler(pin_reads)

Next == NextAlloc \/ Spawn \/ NextPolling \/ NextSession \/ NextWeb

Spec == Init /\ [][Next]_vars

\* The executor polls every task that is ready: a polling task whose timer
\* has expired, the telemetry sub-flow, and the event sub-flow once its
\* reply is sent or the Disconnected event is there.
Fairness ==
    /\ WF_vars(NextAlloc \/ Spawn)
    /\ WF_vars(BasicWriteCycle)
    /\ WF_vars(PwmWriteCycle)
    /\ WF_vars(BasicReadCycle)
    /\ WF_vars(AdcReadCycle)
    /\ WF_vars(\E ev \in ConnEvents : ev.kind = "Disconnected" /\ GattEvent(ev))
    /\ WF_vars(GattSend)
    /\ WF_vars(\/ TelNotifyPin(~peer_gone)
               \/ TelNotifyAdc(~peer_gone)
               \/ TelTimer
               \/ \E ok \in BOOLEAN : TelRssi(ok))

FairSpec == Spec /\ Fairness

\* The PWM driver alone, on pin 14 allocated as PWM output with any u8 in its
\* slot (PinWriteItem.state is a u8, stored as it comes).
U8 == 0..255

InitPwm ==
    /\ config = [basic_write_pin_nums |-> <<>>, basic_read_pin_nums |-> <<>>,
                 pwm_write_pin_nums |-> <<14>>, adc_read_pin_nums |-> <<>>]
    /\ pc = "running"
    /\ LET r == PwmLoop(config.pwm_write_pin_nums, [p \in HwPins |-> TRUE], <<>>, 0) IN
        /\ gpio = r.pool
        /\ pwm_write_pins = r.items
        /\ channel_idx = r.idx
    /\ basic_write_pins = <<>>
    /\ basic_read_pins = <<>>
    /\ adc_read_pins = <<>>
    /\ \E d \in U8 : store = [p \in HwPins |-> IF p = 14 THEN d ELSE 0]
    /\ batch = NoBatch
    /\ pin_level = [p \in HwPins |-> FALSE]
    /\ duty = [p \in HwPins |-> 0]
    /\ session = "Advertising"
    /\ gatt_live = 0
    /\ tel_live = 0
    /\ tel_pc = "none"
    /\ data = NoData
    /\ gatt_pc = "none"
    /\ peer_gone = FALSE
    /\ gatt_event = "none"
    /\ gatt_replies = 0
    /\ pin_data_output = [i \in 1..DataLen |-> 0]
    /\ adc_data_output = [i \in 1..DataLen |-> 0]
    /\ panicked = "no"
    /\ wifi = WifiSpawned

SpecPwm == InitPwm /\ [][PwmWriteCycle]_vars

\* The firmware while no command arrives and no central connects: main and
\* the two samplers.
NextSampling == NextAlloc \/ Spawn \/ BasicReadCycle \/ AdcReadCycle

SpecSampling == Init /\ [][NextSampling]_vars

\* The two bridges on their own, with batches over every pin number that has
\* an arm in a `match` of a bridge and one that has none. Both analog pins
\* are sampled, so that every slot takes values other than 0.
BridgePinNums == {14, 26, 25, 33, 32, 35, 7}

BridgeWriteItems ==
    {it \in [pin_num : BridgePinNums \ {35}, state : ReqStates] :
        it.pin_num \in {14, 26, 25, 33} \/ it.state = 100}

BridgeBatches == UNION {[1..n -> BridgeWriteItems] : n \in 0..MaxBatch}

BridgeReads == UNION {[1..n -> BridgePinNums] : n \in 0..MaxBridgeReads}

\* A write event whose data parses as a PinRequest with these pin_writes.
WriteEvent(pin_writes, a) ==
    ConnEvent("Write", "pin_data_input", TRUE,
              [text |-> "pin_request", pin_writes |-> pin_writes],
              a.accept_ok, a.send_now, TRUE)

\* A central is connected; main has allocated adc_read_pin_nums = [32, 35].
InitBridge ==
    /\ config = [basic_write_pin_nums |-> <<>>, basic_read_pin_nums |-> <<>>,
                 pwm_write_pin_nums |-> <<>>, adc_read_pin_nums |-> <<32, 35>>]
    /\ pc = "running"
    /\ LET r == AdcLoop(config.adc_read_pin_nums, [p \in HwPins |-> TRUE], <<>>) IN
        /\ gpio = r.pool
        /\ adc_read_pins = r.items
    /\ basic_write_pins = <<>>
    /\ basic_read_pins = <<>>
    /\ pwm_write_pins = <<>>
    /\ channel_idx = 0
    /\ store = [p \in HwPins |-> 0]
    /\ batch = NoBatch
    /\ pin_level = [p \in HwPins |-> FALSE]
    /\ duty = [p \in HwPins |-> 0]
    /\ session = "Connected"
    /\ gatt_live = 1
    /\ tel_live = 1
    /\ tel_pc = "pin"
    /\ data = FirstData
    /\ gatt_pc = "next"
    /\ peer_gone = FALSE
    /\ gatt_event = "none"
    /\ gatt_replies = 0
    /\ pin_data_output = [i \in 1..DataLen |-> 0]
    /\ adc_data_output = [i \in 1..DataLen |-> 0]
    /\ panicked = "no"
    /\ wifi = WifiSpawned

\* "Fixed capacity of 8 pin writes max", the comment on PinRequest.pin_writes
\* (a Vec, which has no capacity limit).
MaxPinWrites == 8

\* A batch one entry longer than that.
LongBatch == [i \in 1..(MaxPinWrites + 1) |-> [pin_num |-> 14, state |-> 100]]

NextBle ==
    \/ \E b \in BridgeBatches \cup {LongBatch} : \E a \in AcceptResults :
           GattEvent(WriteEvent(b, a))
    \/ GattSend
    \/ AdcReadCycle

SpecBle == InitBridge /\ [][NextBle]_vars

NextHttp ==
    \/ \E b \in BridgeBatches : WritePinsHandler(b)
    \/ \E pin_reads \in BridgeReads : ReadPinsHandler(pin_reads)
    \/ AdcReadCycle

SpecHttp == InitBridge /\ [][NextHttp]_vars

SpecBridge == InitBridge /\ [][NextBle \/ NextHttp]_vars

\* The session machine on its own, from a connection on: every event and
\* failure of NextSession, while the analog pins are sampled.
SpecSession == InitBridge /\ [][NextSession \/ AdcReadCycle]_vars

\* The telemetry sub-flow of one connection after the other, every notify
\* and every rssi with both results, while the analog pins are sampled.
NextTelemetry ==
    \/ \E ok \in BOOLEAN : TelNotifyPin(ok)
    \/ \E ok \in BOOLEAN : TelNotifyAdc(ok)
    \/ \E ok \in BOOLEAN : TelRssi(ok)
    \/ TelTimer
    \/ PeerDisconnect
    \/ Advertise
    \/ AdcReadCycle

SpecTelemetry == InitBridge /\ [][NextTelemetry]_vars

\* The firmware configured with a digital output and analog inputs: with
\* basic_write_pin_nums = [14] and adc_read_pin_nums = [32], and with pin 14
\* also listed as a digital input, which loses it to the output role.
RoundTripConfigs ==
    {[basic_write_pin_nums |-> <<14>>, basic_read_pin_nums |-> <<>>,
      pwm_write_pin_nums |-> <<>>, adc_read_pin_nums |-> <<32>>],
     [basic_write_pin_nums |-> <<14>>, basic_read_pin_nums |-> <<14>>,
      pwm_write_pin_nums |-> <<>>, adc_read_pin_nums |-> <<35, 32>>]}

InitRoundTrip == config \in RoundTripConfigs /\ InitMain /\ InitRun

\* main, the four polling tasks, a central that connects and writes, and the
\* two HTTP handlers.
NextRoundTrip ==
    \/ NextAlloc
    \/ Spawn
    \/ NextPolling
    \/ Advertise
    \/ \E b \in Batches : \E a \in AcceptResults : GattEvent(WriteEvent(b, a))
    \/ GattSend
    \/ NextWeb

SpecRoundTrip == InitRoundTrip /\ [][NextRoundTrip]_vars

\* Batches over two pins of the allow-list, so that a batch can be stored
\* in part.
BatchItems ==
    {[pin_num |-> 14, state |-> 100], [pin_num |-> 14, state |-> 200],
     [pin_num |-> 26, state |-> 100]}

StepBatches == UNION {[1..n -> BatchItems] : n \in 0..MaxBatch}

\* The same firmware with every batch applied store by store: main, the
\* four polling tasks, a central that connects and writes, the telemetry
\* cycles, and the two HTTP handlers.
NextBatch ==
    \/ NextAlloc
    \/ Spawn
    \/ NextPolling
    \/ Advertise
    \/ \E b \in StepBatches : BleBatchBegin(b)
    \/ BleBatchStore
    \/ \E a \in AcceptResults : BleBatchEnd(a)
    \/ GattSend
    \/ \E b \in StepBatches : WebBatchBegin(b)
    \/ WebBatchStore
    \/ WebBatchEnd
    \/ \E pin_reads \in ReadRequests : ReadPinsHandler(pin_reads)
    \/ TelNotifyPin(TRUE)
    \/ TelNotifyAdc(TRUE)
    \/ TelRssi(TRUE)
    \/ TelTimer

\* basic_write_pin_nums = [14] and adc_read_pin_nums = [32].
BatchConfig ==
    [basic_write_pin_nums |-> <<14>>, basic_read_pin_nums |-> <<>>,
     pwm_write_pin_nums |-> <<>>, adc_read_pin_nums |-> <<32>>]

InitBatch == config = BatchConfig /\ InitMain /\ InitRun

SpecBatch == InitBatch /\ [][NextBatch]_vars

(***************************************************************************)
(* Properties.                                                             *)
(***************************************************************************)
\* main has left the four allocation loops.
Allocated == pc \in {"spawn", "running"}

NoDup(s) == \A i, j \in DOMAIN s : s[i] = s[j] => i = j

\* C1: after allocation no pin number is in the active set of two roles, and
\* no pin number occurs twice in the item list of one role.
C1_AllocationExclusive ==
    Allocated =>
        /\ \A i, j \in 1..4 :
               i # j => ActiveSet(RoleOrder[i]) \cap ActiveSet(RoleOrder[j]) = {}
        /\ \A i \in 1..4 : NoDup(ItemNums(RoleOrder[i]))

\* A configuration with a duplicate inside a list and an overlap between two
\* lists has been allocated.
C1_Witness ==
    /\ Allocated
    /\ config.basic_write_pin_nums = <<14, 14>>
    /\ config.basic_read_pin_nums = <<14>>
    /\ basic_write_pins = <<14>>
    /\ basic_read_pins = <<>>

\* The pin numbers of a role's configured list that the role can be wired to.
Claimable(role) == Range(Configured(role)) \cap Wirable(role)

\* The pin numbers an earlier role has listed and can be wired to.
ClaimableBefore(i) == UNION {Claimable(RoleOrder[k]) : k \in 1..(i - 1)}

\* C2 (amended): the roles are processed in the order DigitalOutput,
\* DigitalInput, PwmOutput, AnalogInput, and the active set of a role is
\* exactly the pin numbers of its list that it can be wired to and that no
\* earlier role has listed and can be wired to; so a pin number an earlier role
\* lists and can be wired to is absent from every later active set.
C2_EarlierClaimWins ==
    Allocated =>
        \A i \in 1..4 :
            ActiveSet(RoleOrder[i]) = Claimable(RoleOrder[i]) \ ClaimableBefore(i)

\* An overlap between an earlier and a later digital list, and an analog pin
\* behind it, have been allocated.
C2_Witness ==
    /\ Allocated
    /\ config.basic_read_pin_nums = <<14>>
    /\ config.pwm_write_pin_nums = <<14>>
    /\ config.adc_read_pin_nums = <<32>>
    /\ ActiveSet("basic_read") = {14}
    /\ ActiveSet("pwm_write") = {}
    /\ ActiveSet("adc_read") = {32}

\* C2 as stated: a pin number in the configured list of an earlier role is in
\* the active set of no later role, also when the earlier role cannot be wired
\* to it.
C2_ListedEarlierWins ==
    Allocated =>
        \A i, j \in 1..4 :
            i < j => Range(Configured(RoleOrder[i])) \cap ActiveSet(RoleOrder[j]) = {}

\* The slots the two samplers store to: those of the pins they own.
SamplerSlots == Range(basic_read_pins) \cup PinNumsOf(adc_read_pins)

\* The pins some role owns.
ActivePins == UNION {ActiveSet(RoleOrder[i]) : i \in 1..4}

\* A step of gatt_events_task or of write_pins_handler.
BridgeStep ==
    \/ \E ev \in ConnEvents : GattEvent(ev)
    \/ \E pin_writes \in Batches : WritePinsHandler(pin_writes)

\* A pass of one of the two samplers.
SamplerStep == BasicReadCycle \/ AdcReadCycle

\* C3: a command write of either bridge (a step only a bridge can take)
\* changes no slot that a sampler task writes, so every slot has one writing
\* task category.
C3_OneWriterPerSlot ==
    [][(BridgeStep /\ ~SamplerStep) =>
           Changed(store, store') \cap SamplerSlots = {}]_vars

\* C4: the slot of a pin outside the active set never changes, and the read
\* handler answers 0 for every pin number outside the active set.
C4_UnknownPinSafety ==
    [][/\ \A p \in HwPins \ ActivePins : store'[p] = store[p]
       /\ \A pin_num \in ReadPinNums \ ActivePins :
              PinReadResponse(<<pin_num>>, store').pin_reads[1].state = 0]_vars

\* The write events whose payload is not UTF-8 or is not a PinRequest.
MalformedWrites ==
    {ev \in ConnEvents : ev.kind = "Write" /\ ev.payload.text # "pin_request"}

\* C5: a write event with a malformed payload changes no slot, leaves the
\* session Connected and leaves gatt_events_task running.
C5_MalformedWriteDropped ==
    [][\A ev \in MalformedWrites :
           GattEvent(ev) =>
               /\ store' = store
               /\ session' = "Connected"
               /\ gatt_live' = gatt_live
               /\ panicked' = "no"]_vars

\* C6: every GATT event gatt_events_task has taken was replied to exactly
\* once when the task is back at conn.next() for the next event.
C6_RepliedOnce == (gatt_event = "Gatt" /\ gatt_pc = "next") => gatt_replies = 1

\* The firmware has stopped on a failure of the radio: the panic! of run on
\* an error of advertise(), or the one of ble_task on an error of the runner.
RadioFailed == panicked \in {"advertise", "ble_task"}

\* A step in which one of the two sub-flows of a connection finishes.
SubflowEnds ==
    \/ \E ev \in ConnEvents : GattHandle(ev, store).flow = "return" /\ GattEvent(ev)
    \/ TelRssi(FALSE)

\* C7: when a sub-flow of the connection finishes, the other one is dropped,
\* the machine is next Advertising and no slot changes; and once the peer has
\* left a connection, the machine is eventually Advertising again (or the
\* firmware has stopped on a failure of the radio).
C7_SessionRecovery ==
    /\ [][(session = "Connected" /\ SubflowEnds) =>
              /\ session' = "Advertising"
              /\ gatt_live' = 0
              /\ tel_live' = 0
              /\ store' = store]_vars
    /\ (session = "Connected" /\ peer_gone) ~> (session = "Advertising" \/ RadioFailed)

\* C8: at most one gatt_events_task and one custom_task exist, and none
\* exists while the machine advertises: they exist only in the one connection.
C8_OneSession ==
    /\ gatt_live <= 1
    /\ tel_live <= 1
    /\ session \in {"NotStarted", "Advertising"} => (gatt_live = 0 /\ tel_live = 0)
    /\ session = "Connected" => (gatt_live = 1 /\ tel_live = 1)

\* The machine advertises again after a connection in which a GATT event was
\* handled.
C8_Witness ==
    /\ session = "Advertising"
    /\ gatt_event = "Gatt"
    /\ gatt_live = 0
    /\ tel_live = 0

\* C9: an error of advertise() stops the machine, and a stopped machine takes
\* no further step: it neither advertises nor connects again.
C9_AdvertiseErrorFatal ==
    [][/\ AdvertiseError => (session' = "Failed" /\ panicked' = "advertise")
       /\ session = "Failed" => UNCHANGED vars]_vars

\* advertise() has returned an error.
C9_Witness == session = "Failed" /\ panicked = "advertise"

\* The values a slot of a digital output takes in the runs explored.
SlotValues == {0} \cup ReqStates

\* C10: a pass of the digital output driver sets each of its pins high iff
\* the slot holds 100; and while the slot of one of its pins holds v, the pin
\* eventually has the level of v (or the slot is written again, or the firmware
\* has stopped on a failure of the radio).
C10_DriverFollowsSlot ==
    /\ [][BasicWriteCycle =>
              \A p \in Range(basic_write_pins) :
                  pin_level'[p] = (OutputLoad(store, p) = 100)]_vars
    /\ \A p \in RunDigitalNums : \A v \in SlotValues :
           (pc = "running" /\ p \in Range(basic_write_pins) /\ store[p] = v)
               ~> (store[p] # v \/ pin_level[p] = (v = 100) \/ RadioFailed)

\* C11: in a pass of the PWM driver, for each of its pins whose slot holds d
\* in 0..100, the duty programmed is floor(d * M / 100) and is at most M, M
\* being the maximum duty of the channel; a channel that could not be
\* programmed keeps its duty; the store does not change and the task goes on.
C11_PwmDuty ==
    [][PwmWriteCycle =>
           /\ \A p \in PinNumsOf(pwm_write_pins) :
                  store[p] \in 0..100 =>
                      \/ duty'[p] = duty[p]
                      \/ /\ 100 * duty'[p] <= store[p] * MaxDutyCycle
                         /\ store[p] * MaxDutyCycle < 100 * (duty'[p] + 1)
                         /\ duty'[p] <= MaxDutyCycle
           /\ store' = store
           /\ panicked' = "no"
           /\ ENABLED PwmWriteCycle]_vars

\* The driver has programmed a duty that the division truncated.
C11_Witness == store[14] = 33 /\ duty[14] = 1351

\* C12: the slot of every pin allocated as PWM output holds a value in
\* 0..100.
C12_PwmSlotRange == \A p \in PinNumsOf(pwm_write_pins) : store[p] \in 0..100

\* The step is the pass of the analog sampler with these conversion results.
AdcPassWith(results) ==
    LET r == AdcReadLoop(adc_read_pins, results, store, {}, 1) IN
        /\ adc_read_pins' = r.items
        /\ store' = r.st
        /\ UNCHANGED <<itemVars, batch, hwVars, sessVars, panicked>>

\* C13: in a pass of the analog sampler, a slot changes only by a successful
\* conversion of its pin, so a failed conversion leaves the slot of its pin
\* and every other slot as they were; the pins after the failed one are still
\* converted in the same pass; and the failed item holds its pin handle again,
\* so the next pass converts it again.
C13_AdcFailureSkipsPin ==
    [][\A results \in [DOMAIN adc_read_pins -> AdcResults] :
           AdcPassWith(results) =>
               /\ \A p \in HwPins :
                      (\A i \in DOMAIN adc_read_pins :
                           adc_read_pins[i].pin_num = p => ~results[i].ok)
                          => store'[p] = store[p]
               /\ \A i \in DOMAIN adc_read_pins :
                      /\ results[i].ok =>
                             store'[adc_read_pins[i].pin_num] = results[i].value
                      /\ HasHandle(adc_read_pins'[i])
               /\ panicked' = "no"]_vars

\* Both analog pins are sampled; no conversion of pin 32 has succeeded yet,
\* while one of pin 35, which comes after it in each pass, has.
C13_Witness ==
    /\ [i \in DOMAIN adc_read_pins |-> adc_read_pins[i].pin_num] = <<32, 35>>
    /\ store[32] = 0
    /\ store[35] = 4095

\* The step is the pass of the digital input sampler that finds these levels.
BasicReadPassWith(levels) ==
    /\ store' = BasicReadLoop(basic_read_pins, levels, store)
    /\ UNCHANGED <<allocVars, batch, hwVars, sessVars, panicked>>

\* C14: a pass of the digital input sampler sets the slot of each pin it owns
\* to 100 if the pin is high and to 0 if it is low, and changes the slot of no
\* other pin.
C14_BasicReadFrame ==
    [][\A levels \in [Range(basic_read_pins) -> BOOLEAN] :
           BasicReadPassWith(levels) =>
               /\ \A p \in Range(basic_read_pins) :
                      store'[p] = IF levels[p] THEN 100 ELSE 0
               /\ \A p \in HwPins \ Range(basic_read_pins) : store'[p] = store[p]]_vars

\* The sampler has found its pin 14 high.
C14_Witness == basic_read_pins = <<14>> /\ store[14] = 100

\* The pin numbers the command bridges accept.
AllowList == {14, 26, 25, 33}

\* The index of the last entry of a batch for a pin number.
LastFor(pin_writes, p) ==
    CHOOSE i \in DOMAIN pin_writes :
        /\ pin_writes[i].pin_num = p
        /\ \A j \in DOMAIN pin_writes : pin_writes[j].pin_num = p => j <= i

\* The store after a batch applied in list order: a slot of the allow-list
\* has the value of the last entry for its pin, every other slot is as before.
AppliedInOrder(pin_writes, st) ==
    [p \in HwPins |->
        IF p \in AllowList /\ \E i \in DOMAIN pin_writes : pin_writes[i].pin_num = p
        THEN pin_writes[LastFor(pin_writes, p)].state
        ELSE st[p]]

\* C15: from every store the firmware reaches, the handling of a write event
\* with a well-formed payload leaves the store as its entries applied in list
\* order do: entries for 14, 26, 25, 33 store their value, the last one for a
\* pin deciding, and other entries change no slot.
C15_BleWriteInOrder ==
    \A b \in BridgeBatches : \A a \in AcceptResults :
        GattHandle(WriteEvent(b, a), store).st = AppliedInOrder(b, store)

\* Wireless writes have set two slots of the allow-list, and no other.
C15_Witness ==
    /\ gatt_event = "Gatt"
    /\ store[14] = 200
    /\ store[33] = 100
    /\ store[25] = 0
    /\ store[26] = 0

\* C16: from every store the firmware reaches and for every list of entries,
\* write_pins_handler leaves in the slot of each known pin number (14, 26, 25,
\* 33) the value of its entry, the last one deciding, leaves every other slot
\* as it was, and answers success = true.
C16_WebWrite ==
    \A b \in BridgeBatches :
        /\ WebWriteLoop(b, store) = AppliedInOrder(b, store)
        /\ ENABLED WritePinsHandler(b)
        /\ PinWriteResponse.success

\* Network writes have set two slots of known pins, and no other.
C16_Witness ==
    /\ store[26] = 200
    /\ store[14] = 100
    /\ store[25] = 0
    /\ store[33] = 0

\* C17: from every store the firmware reaches and for every list of pin
\* numbers, read_pins_handler answers success = true and a list of the same
\* length whose i-th item has the i-th pin number and the value of its slot,
\* or 0 if the pin number has no slot; the handler changes no slot.
C17_WebRead ==
    /\ [](\A pin_reads \in BridgeReads :
              LET response == PinReadResponse(pin_reads, store) IN
                  /\ response.success
                  /\ Len(response.pin_reads) = Len(pin_reads)
                  /\ \A i \in DOMAIN pin_reads :
                         /\ response.pin_reads[i].pin_num = pin_reads[i]
                         /\ response.pin_reads[i].state =
                                IF pin_reads[i] \in HwPins THEN store[pin_reads[i]] ELSE 0)
    /\ [][\A pin_reads \in BridgeReads :
              ReadPinsHandler(pin_reads) => store' = store]_vars

\* A sampled analog slot and a written digital slot hold values, and a read
\* of both returns them in the order asked.
C17_Witness ==
    /\ store[32] = 1000
    /\ store[14] = 200
    /\ PinReadResponse(<<32, 14>>, store).pin_reads =
           <<[pin_num |-> 32, state |-> 1000], [pin_num |-> 14, state |-> 200]>>

\* C18: from every store the firmware reaches and for every batch, the
\* handling of the batch as a wireless write event and write_pins_handler
\* leave the same store, so read_pins_handler answers the same for every pin
\* number afterwards.
C18_BridgesAgree ==
    \A b \in BridgeBatches :
        LET ble == GattHandle(WriteEvent(b, Sent), store).st
            web == WebWriteLoop(b, store)
        IN /\ ble = web
           /\ \A pin_num \in BridgePinNums :
                  PinReadResponse(<<pin_num>>, ble) = PinReadResponse(<<pin_num>>, web)

\* Batches have arrived over both bridges' slots while a central is connected
\* and its write events were handled.
C18_Witness ==
    /\ gatt_event = "Gatt"
    /\ store[25] = 100
    /\ store[33] = 200
    /\ store[35] = 4095

\* C19: the handling of a write event whose payload has more entries than
\* the maximum entry count applies none of them: the store is as before.
C19_LongBatchRejected ==
    \A a \in AcceptResults : GattHandle(WriteEvent(LongBatch, a), store).st = store

\* C20: every analog telemetry payload that is composed starts with the
\* number of allocated analog pins and goes on with one triple per
\* allocated analog pin, holding the slot value read in that cycle, and it
\* is the payload the central is notified of; a configured number that was
\* not allocated, or a duplicate, adds nothing.
C20_AllocatedAdcPayload ==
    [][/\ \A ok \in BOOLEAN :
            (TelNotifyPin(ok) /\ tel_pc' = "adc") =>
                LET want == AdcData(ItemNums("adc_read"), store) IN
                \A i \in 1..Len(want) : data'[i] = want[i]
       /\ TelNotifyAdc(TRUE) => adc_data_output' = data]_vars

\* C21: a notification of the digital or of the analog snapshot, failed or
\* not, leaves the telemetry sub-flow alive in the Connected state and at the
\* next step of the same cycle, and the end of the wait starts a further
\* cycle; a failure to obtain the RSSI ends the sub-flow and the Connected
\* state.
C21_OnlyRssiEndsTelemetry ==
    [][/\ \A ok \in BOOLEAN :
            /\ TelNotifyPin(ok) =>
                  (session' = "Connected" /\ tel_live' = tel_live /\ tel_pc' = "adc")
            /\ TelNotifyAdc(ok) =>
                  (session' = "Connected" /\ tel_live' = tel_live /\ tel_pc' = "rssi")
       /\ TelTimer => (session' = "Connected" /\ tel_pc' = "pin")
       /\ TelRssi(FALSE) =>
             (session' = "Advertising" /\ tel_live' = tel_live - 1 /\ tel_pc' = "none")]_vars

\* Both notifications of a cycle failed with the central there (it has been
\* notified of nothing), the RSSI was obtained and the sub-flow waits for its
\* next cycle.
C21_Witness ==
    /\ session = "Connected"
    /\ ~peer_gone
    /\ tel_live = 1
    /\ tel_pc = "sleep"
    /\ pin_data_output = [i \in 1..DataLen |-> 0]
    /\ adc_data_output = [i \in 1..DataLen |-> 0]

\* The step is a command write, wireless or network, of a batch whose last
\* entry for pin p carries the value the slot of p has after the step.
CommandWrote(p) ==
    \E b \in Batches :
        /\ p \in StoredPins(b)
        /\ store'[p] = b[LastFor(b, p)].state
        /\ \/ WritePinsHandler(b)
           \/ \E a \in AcceptResults : GattEvent(WriteEvent(b, a))

\* The step is a pass of the analog sampler in which a conversion of pin p
\* succeeded with the value the slot of p has after the step.
Converted(p) ==
    \E results \in [DOMAIN adc_read_pins -> AdcResults] :
        /\ AdcPassWith(results)
        /\ \E i \in DOMAIN adc_read_pins :
               /\ adc_read_pins[i].pin_num = p
               /\ results[i].ok
               /\ store'[p] = results[i].value

\* C22: a read of a pin allocated as digital output or as analog input
\* returns the value of its slot; the slot of a digital output pin changes
\* only in a command write to that pin, which leaves the written value in it,
\* so every read returns the value last written whatever polling passes
\* come between; the slot of an analog input pin changes only in a sampler
\* pass to the value a conversion of that pin succeeded with.
C22_ReadReturnsLastWrite ==
    /\ [](\A p \in Range(basic_write_pins) \cup PinNumsOf(adc_read_pins) :
              PinReadResponse(<<p>>, store).pin_reads[1] = [pin_num |-> p, state |-> store[p]])
    /\ [][/\ \A p \in Range(basic_write_pins) :
                /\ store'[p] # store[p] => CommandWrote(p)
                /\ \A b \in Batches :
                       (WritePinsHandler(b) /\ p \in StoredPins(b))
                           => store'[p] = b[LastFor(b, p)].state
          /\ \A p \in PinNumsOf(adc_read_pins) :
                store'[p] # store[p] => Converted(p)]_vars

\* With write:[14] and adc:[32], the value 100 written to pin 14 is in its
\* slot after the output driver has driven the pin high from it, and the slot
\* of pin 32 holds a converted sample.
C22_Witness ==
    /\ basic_write_pins = <<14>>
    /\ PinNumsOf(adc_read_pins) = {32}
    /\ store[14] = 100
    /\ pin_level[14]
    /\ store[32] = 4095
    /\ PinReadResponse(<<14>>, store).pin_reads[1].state = 100

\* C23: once main has spawned them, each of the four polling tasks can take
\* its next pass in every state (so that under fair scheduling each takes
\* infinitely many), whatever the store holds and whatever has failed, short
\* of a failure of the radio.
C23_PollingNeverStops ==
    (pc = "running" /\ ~RadioFailed) =>
        /\ ENABLED BasicWriteCycle
        /\ ENABLED PwmWriteCycle
        /\ ENABLED BasicReadCycle
        /\ ENABLED AdcReadCycle

\* C24: while the machine advertises, gatt_events_task can handle no event,
\* so no wireless write reaches the store, and custom_task can send neither
\* notification: no sub-flow of the connection that ended is left to do so.
C24_IdleWhileAdvertising ==
    session = "Advertising" =>
        /\ \A ev \in ConnEvents : ~ENABLED GattEvent(ev)
        /\ ~ENABLED GattSend
        /\ \A ok \in BOOLEAN : ~ENABLED TelNotifyPin(ok) /\ ~ENABLED TelNotifyAdc(ok)

\* The machine advertises again after a connection in which the central was
\* notified of both snapshots and the telemetry sub-flow was in a later cycle
\* when the central left.
C24_Witness ==
    /\ session = "Advertising"
    /\ panicked = "no"
    /\ peer_gone
    /\ pin_data_output[1] = 3
    /\ adc_data_output[1] = Len(config.adc_read_pin_nums)
    /\ Len(config.adc_read_pin_nums) > 0

\* C25: in every connection the analog payload of the configuration, one
\* count byte and three bytes per reported pin, is no longer than the buffer
\* of the characteristic, and composing it never panics.
C25_TelemetryFits ==
    /\ session = "Connected" => Len(AdcData(TelemetryPins, store)) <= DataLen
    /\ panicked # "copy_from_slice"

\* A task other than the handler that applies the batch can be polled: a
\* polling task, a telemetry cycle, the event sub-flow, or another handler.
OtherTaskReady ==
    \/ ENABLED BasicWriteCycle
    \/ ENABLED PwmWriteCycle
    \/ ENABLED BasicReadCycle
    \/ ENABLED AdcReadCycle
    \/ ENABLED TelNotifyPin(TRUE)
    \/ ENABLED TelNotifyAdc(TRUE)
    \/ ENABLED TelRssi(TRUE)
    \/ ENABLED TelTimer
    \/ ENABLED GattSend
    \/ \E pin_writes \in StepBatches :
           ENABLED BleBatchBegin(pin_writes) \/ ENABLED WebBatchBegin(pin_writes)
    \/ \E pin_reads \in ReadRequests : ENABLED ReadPinsHandler(pin_reads)

\* C26: from the moment a handler, wireless or network, starts on a batch
\* until it has stored the last entry, no other task can be polled and every
\* step is a step of that handler on that batch; the store differs from the
\* one the handler found by the entries stored so far and by nothing else,
\* so the handler leaves the store of the whole batch applied to the store
\* it found, and no reader finds a batch applied in part.
C26_BatchAtomic ==
    /\ [](batch.task # "none" =>
              /\ ~OtherTaskReady
              /\ store = (IF batch.task = "gatt"
                          THEN BleWriteLoop(SubSeq(batch.pin_writes, 1, batch.done),
                                            batch.before)
                          ELSE WebWriteLoop(SubSeq(batch.pin_writes, 1, batch.done),
                                            batch.before)))
    /\ [][batch.task # "none" => BatchStep]_vars

\* The wireless handler has stored 14 := 200, the first entry of a batch
\* whose second entry, 26 := 100, is not stored yet, after the polling tasks
\* ran: the output driver has driven pin 14 from an earlier 100 and the
\* analog sampler has stored a sample.
C26_Witness ==
    /\ batch.task = "gatt"
    /\ batch.pin_writes = <<[pin_num |-> 14, state |-> 200],
                            [pin_num |-> 26, state |-> 100]>>
    /\ batch.done = 1
    /\ store[14] = 200
    /\ store[26] = 0
    /\ batch.before[14] = 100
    /\ pin_level[14]
    /\ store[32] = 1000

\* C27: every allocated PWM item is bound to a channel index from 0 up to but
\* not including the number of channels, no two items are bound to the same
\* index, and the index main would use next is that of no item.
C27_PwmChannels ==
    /\ \A i \in DOMAIN pwm_write_pins :
           /\ pwm_write_pins[i].channel \in 0..(NumChannels - 1)
           /\ pwm_write_pins[i].channel < channel_idx
    /\ \A i, j \in DOMAIN pwm_write_pins :
           i # j => pwm_write_pins[i].channel # pwm_write_pins[j].channel
    /\ channel_idx <= NumChannels

\* All four pins of the match are allocated as PWM outputs: they are bound to
\* channels 0 to 3.
C27_Witness ==
    /\ Allocated
    /\ Len(pwm_write_pins) = 4
    /\ channel_idx = 4
    /\ {pwm_write_pins[i].channel : i \in DOMAIN pwm_write_pins} = 0..3

\* The value a central decodes from the pair of a slot value.
FromU8Pair(pair) == pair[1] * 256 + pair[2]

\* C28: the slot of each analog pin holds a value below 65536 in every state,
\* whatever the converter returned, and the pair u32_to_u8_pair makes of it
\* decodes to that value; so does the pair of every sample the converter can
\* return; and no batch sent to a bridge, entries for pins 32 and 35
\* included, changes the slot of an analog pin.
C28_AdcPairLossless ==
    /\ \A p \in AdcArms :
           /\ store[p] \in 0..65535
           /\ FromU8Pair(U32ToU8Pair(store[p])) = store[p]
    /\ \A v \in AdcValues : FromU8Pair(U32ToU8Pair(v)) = v
    /\ \A b \in BridgeBatches : \A p \in AdcArms :
           /\ GattHandle(WriteEvent(b, Sent), store).st[p] = store[p]
           /\ WebWriteLoop(b, store)[p] = store[p]

\* Both analog slots hold samples above 255 while the slot of pin 14 holds a
\* written value.
C28_Witness ==
    /\ store[32] = 4095
    /\ store[35] = 1000
    /\ store[14] = 100
    /\ U32ToU8Pair(store[32]) = <<15, 255>>
    /\ U32ToU8Pair(store[35]) = <<3, 232>>

\* C29: the connection task never ends; the controller is started at most
\* once, and only when it is not started; and after a failed connect as after
\* a disconnection, the expiry of the 5 s timer leads to a call of
\* connect_async.
C29_WifiKeepsRetrying ==
    /\ wifi.pc # "panicked"
    /\ wifi.starts <= 1
    /\ wifi.pc = "start_async" => ~wifi.started
    /\ (wifi.pc \in {"timer_disconnected", "timer_failed"} /\ wifi.connects < MaxConnects)
           => \A ok \in BOOLEAN : ENABLED (WifiTimer(ok) /\ wifi'.pc = "connect_async")

\* C30: every item of the analog sampler holds the converter handle of its
\* pin in every state between passes, and from every such state the handling
\* of an item leaves the handle in it whether the conversion succeeds or
\* fails, and executes a store only with the sample of a successful
\* conversion: the fallback 0 of a missing handle is never stored.
C30_AdcHandleReturned ==
    \A i \in DOMAIN adc_read_pins :
        /\ adc_read_pins[i].pin_num \in AdcArms
        /\ HasHandle(adc_read_pins[i])
        /\ \A result \in AdcResults :
               LET r == AdcItemStep(adc_read_pins[i], result, store) IN
                   /\ HasHandle(r.item)
                   /\ r.stored => (result.ok /\ r.st[adc_read_pins[i].pin_num] = result.value)
                   /\ ~r.stored => r.st = store

\* Both analog pins are allocated, 35 first, and passes of the sampler have
\* stored samples of both: the items hold their handles after them.
C30_Witness ==
    /\ pc = "running"
    /\ [i \in DOMAIN adc_read_pins |-> adc_read_pins[i].pin_num] = <<35, 32>>
    /\ store[35] = 1000
    /\ store[32] = 4095
    /\ \A i \in DOMAIN adc_read_pins : HasHandle(adc_read_pins[i])

====
